---- MODULE Spec2Model ----
(***************************************************************************)
(* Dog Sports Tracking (src/app.js): the persisted store (dogs, runs,      *)
(* distances, settings), its load / save / export / import, the ranking    *)
(* derived from it and the stopwatch that produces the runs.                *)
(*                                                                         *)
(* Numbers.  A JavaScript number is modelled by an integer, with the       *)
(* sentinels Infinity and NaN below.  Durations (performance.now(),        *)
(* timer.start, timer.elapsed, the result of parseTimeString) are counted  *)
(* in units of 1/10 ms, so that values below one millisecond exist; the    *)
(* stored run.timeMs is in whole milliseconds (Math.round).  Floating      *)
(* point rounding error is modelled in the time codec only (formatTime     *)
(* and parseTimeString in double precision, below), where a round trip     *)
(* depends on it.                                                          *)
(*                                                                         *)
(* Text.  A user-typed string is a sequence of one-character strings.      *)
(* A JSON text is the record [syntax |-> "invalid"] or                     *)
(* [syntax |-> "json", value |-> v], v the value JSON.parse returns.       *)
(*                                                                         *)
(* Records.  Dog keeps id, name and photoDataUrl; breed, notes and         *)
(* createdAt are strings handled exactly like name and are left out.       *)
(* Run keeps id, dogId, distanceM, timeMs, speedKmh and createdAt; sport   *)
(* and notes are copied from the form and never read again.                *)
(***************************************************************************)
EXTENDS Integers, Sequences, FiniteSets, TLC

VARIABLES
    boot,       \* "ok", or "TypeError" when line 83 (let store = loadStore()) threw
    store,      \* the module-level store object (line 83)
    persisted,  \* localStorage[STORE_KEY]: Absent or a JSON text
    timer,      \* the module-level timer object (line 606), without raf
    raf,        \* whether an animation frame callback of tick is scheduled
    now,        \* performance.now(), in units of 1/10 ms
    pending,    \* async handlers suspended at their await
    lastStart,  \* history: performance.now() and timer.elapsed when startTimer last ran
    toasted     \* the message the last handler passed to toast(), "" when none

vars == <<boot, store, persisted, timer, raf, now, pending, lastStart, toasted>>

----------------------------------------------------------------------------
(* Bounds of the model *)

MaxDogs == 2        \* dogs in store.dogs
MaxRuns == 2        \* runs in store.runs
MaxPending == 1     \* async handlers suspended at the same time
MaxNow == 2         \* number of times the clock advances

----------------------------------------------------------------------------
(* JavaScript values *)

Undefined == "undefined"
Null == "null"
Infinity == 2^30
NaN == 0 - 2^30 - 1
\* JSON.stringify writes a non-finite number as null; a null in a numeric
\* position is the number-typed sentinel NullNum.
NullNum == 0 - 2^30 - 2

IsFinite(n) == n \notin {Infinity, 0 - Infinity, NaN, NullNum}

\* a - b on JavaScript numbers
Minus(a, b) ==
    IF a = NaN \/ b = NaN THEN NaN
    ELSE IF a = Infinity THEN (IF b = Infinity THEN NaN ELSE Infinity)
    ELSE IF a = 0 - Infinity THEN (IF b = 0 - Infinity THEN NaN ELSE 0 - Infinity)
    ELSE IF b = Infinity THEN 0 - Infinity
    ELSE IF b = 0 - Infinity THEN Infinity
    ELSE a - b

\* a + b on JavaScript numbers
Plus(a, b) == Minus(a, IF b = NaN THEN NaN ELSE 0 - b)

\* a > b on JavaScript numbers (false whenever a NaN is involved)
Greater(a, b) == a # NaN /\ b # NaN /\ a > b

SeqRange(s) == {s[i] : i \in 1..Len(s)}

Filter(s, Keep(_)) == SelectSeq(s, Keep)

\* Array.prototype.includes
Includes(s, x) == \E i \in 1..Len(s) : s[i] = x

\* Array.from(new Set(s)): the first occurrence of every element, in order
RECURSIVE Uniq(_)
Uniq(s) ==
    IF s = <<>> THEN <<>>
    ELSE LET front == Uniq(SubSeq(s, 1, Len(s) - 1))
             last == s[Len(s)]
         IN IF Includes(front, last) THEN front ELSE Append(front, last)

\* Array.prototype.slice(0, n)
Slice0(s, n) == SubSeq(s, 1, IF Len(s) < n THEN Len(s) ELSE n)

----------------------------------------------------------------------------
(* Utilities: lines 14-52 *)

Digits == <<"0", "1", "2", "3", "4", "5", "6", "7", "8", "9">>
IsDigit(c) == Includes(Digits, c)
DigitVal(c) == (CHOOSE i \in 1..10 : Digits[i] = c) - 1

RECURSIVE DigitPrefixLen(_)
DigitPrefixLen(s) ==
    IF s = <<>> \/ ~IsDigit(Head(s)) THEN 0 ELSE 1 + DigitPrefixLen(Tail(s))

RECURSIVE DigitsValue(_)
DigitsValue(s) ==
    IF s = <<>> THEN 0
    ELSE DigitsValue(SubSeq(s, 1, Len(s) - 1)) * 10 + DigitVal(s[Len(s)])

\* a faulty variant of trim: nothing is removed
NoTrim(s) == s

\* String.prototype.trim (the only white space typed is the blank)
RECURSIVE TrimLeft(_)
TrimLeft(s) == IF s # <<>> /\ Head(s) = " " THEN TrimLeft(Tail(s)) ELSE s
RECURSIVE TrimRight(_)
TrimRight(s) ==
    IF s # <<>> /\ s[Len(s)] = " " THEN TrimRight(SubSeq(s, 1, Len(s) - 1)) ELSE s
Trim(s) == TrimRight(TrimLeft(s))

\* String.prototype.split(sep): the pieces between the separators
RECURSIVE Split(_, _)
Split(s, sep) ==
    IF ~Includes(s, sep) THEN <<s>>
    ELSE LET i == CHOOSE k \in 1..Len(s) :
                      s[k] = sep /\ \A j \in 1..(k - 1) : s[j] # sep
         IN <<SubSeq(s, 1, i - 1)>> \o Split(SubSeq(s, i + 1, Len(s)), sep)

StartsWith(s, p) == Len(s) >= Len(p) /\ SubSeq(s, 1, Len(p)) = p

InfinityWord == <<"I", "n", "f", "i", "n", "i", "t", "y">>

\* parseInt(s, 10): leading blanks, a sign, then the longest run of digits
ParseInt(str) ==
    LET t == TrimLeft(str)
        neg == t # <<>> /\ Head(t) = "-"
        u == IF t # <<>> /\ Head(t) \in {"-", "+"} THEN Tail(t) ELSE t
        n == DigitPrefixLen(u)
    IN IF n = 0 THEN NaN
       ELSE IF neg THEN 0 - DigitsValue(SubSeq(u, 1, n))
       ELSE DigitsValue(SubSeq(u, 1, n))

\* parseFloat(s), times 10^4 (the fraction is cut after four digits):
\* leading blanks, a sign, then Infinity or digits with an optional
\* fraction.  Exponents are not typed.
ParseFloat4(str) ==
    LET t == TrimLeft(str)
        neg == t # <<>> /\ Head(t) = "-"
        u == IF t # <<>> /\ Head(t) \in {"-", "+"} THEN Tail(t) ELSE t
        n == DigitPrefixLen(u)
        afterInt == SubSeq(u, n + 1, Len(u))
        hasDot == afterInt # <<>> /\ Head(afterInt) = "."
        fracAll == IF hasDot THEN Tail(afterInt) ELSE <<>>
        f == DigitPrefixLen(fracAll)
        frac4 == SubSeq(SubSeq(fracAll, 1, f) \o <<"0", "0", "0", "0">>, 1, 4)
        mag == DigitsValue(SubSeq(u, 1, n)) * 10000 + DigitsValue(frac4)
    IN IF StartsWith(u, InfinityWord) THEN (IF neg THEN 0 - Infinity ELSE Infinity)
       ELSE IF n = 0 /\ f = 0 THEN NaN
       ELSE IF neg THEN 0 - mag ELSE mag

\* parseTimeString (lines 23-37); the result is in units of 1/10 ms,
\* Null for the JavaScript null
ParseTimeString(str) ==
    LET t == Trim(str)
    IN IF t = <<>> THEN NullNum
       ELSE IF Includes(t, ":")
       THEN LET parts == Split(t, ":")
                ss == ParseFloat4(parts[2])
                m == ParseInt(parts[1])
            IN IF m = NaN \/ ss = NaN THEN NullNum
               ELSE IF ~IsFinite(ss) THEN ss
               ELSE m * 60 * 10000 + ss
       ELSE LET s == ParseFloat4(t)
            IN IF s = NaN THEN NullNum ELSE s

\* Math.round of a duration in 1/10 ms, in whole milliseconds
RoundMs(e) == IF IsFinite(e) THEN (e + 5) \div 10 ELSE e

\* a faulty variant of speedKmh: metres per second, the factor 3.6 left out
SpeedMetresPerSecond4(distanceM, timeU) ==
    IF timeU <= 0 \/ timeU = Infinity THEN <<0, 0>>
    ELSE <<(distanceM * 10000) \div timeU, 0>>

\* speedKmh (lines 39-43) followed by round(_, 4) (lines 45-48): km/h as
\* <<whole, ten-thousandths>>.  timeU is in units of 1/10 ms, so that
\* (distanceM * 3.6) / (timeMs / 1000) = distanceM * 36000 / timeU.
SpeedKmh4(distanceM, timeU) ==
    IF timeU <= 0 \/ timeU = Infinity THEN <<0, 0>>
    ELSE LET num == distanceM * 36000
             whole == num \div timeU
             rem == num % timeU
             q1 == (rem * 100) \div timeU
             r1 == (rem * 100) % timeU
             q2 == (2 * r1 * 100 + timeU) \div (2 * timeU)
             frac == q1 * 100 + q2
         IN IF frac = 10000 THEN <<whole + 1, 0>> ELSE <<whole, frac>>

\* a.speedKmh > b.speedKmh
SpeedGreater(a, b) == a[1] > b[1] \/ (a[1] = b[1] /\ a[2] > b[2])

----------------------------------------------------------------------------
(* The time codec in double precision: lines 14-37 *)

\* A JavaScript number is an IEEE 754 double: 53 significant bits, every
\* result rounded to the nearest such value, ties to the even one.
SignificandBits == 53

\* The magnitude of a double is written in base 2^LimbBits, most
\* significant limb first, with FractionLimbs limbs below the unit: every
\* double the codec meets (0.0001 and above) is a whole number of
\* 2^-(LimbBits * FractionLimbs) milliseconds (or seconds).
LimbBits == 15
FractionLimbs == 5
Base == 2^LimbBits

Zeros(n) == [i \in 1..n |-> 0]

Front(b) == SubSeq(b, 1, Len(b) - 1)

Last(b) == b[Len(b)]

RECURSIVE NatLimbs(_)
NatLimbs(n) == IF n = 0 THEN <<>> ELSE Append(NatLimbs(n \div Base), n % Base)

\* the number of bits of a natural number
RECURSIVE BitLen(_)
BitLen(n) == IF n = 0 THEN 0 ELSE 1 + BitLen(n \div 2)

\* without leading zeros
RECURSIVE Normal(_)
Normal(b) == IF b # <<>> /\ Head(b) = 0 THEN Normal(Tail(b)) ELSE b

\* a + b + carry, exactly
RECURSIVE AddLimbs(_, _, _)
AddLimbs(a, b, carry) ==
    IF a = <<>> /\ b = <<>> THEN NatLimbs(carry)
    ELSE LET x == IF a = <<>> THEN 0 ELSE Last(a)
             y == IF b = <<>> THEN 0 ELSE Last(b)
             t == x + y + carry
         IN Append(AddLimbs(IF a = <<>> THEN a ELSE Front(a),
                            IF b = <<>> THEN b ELSE Front(b), t \div Base),
                   t % Base)

\* a - b - borrow, exactly, for a >= b
RECURSIVE SubLimbs(_, _, _)
SubLimbs(a, b, borrow) ==
    IF a = <<>> THEN <<>>
    ELSE LET y == IF b = <<>> THEN 0 ELSE Last(b)
             t == Last(a) - y - borrow
         IN Append(SubLimbs(Front(a), IF b = <<>> THEN b ELSE Front(b),
                            IF t < 0 THEN 1 ELSE 0),
                   t % Base)

\* a * k + carry, exactly, for a natural k up to Base
RECURSIVE MulLimbs(_, _, _)
MulLimbs(a, k, carry) ==
    IF a = <<>> THEN NatLimbs(carry)
    ELSE LET t == Last(a) * k + carry
         IN Append(MulLimbs(Front(a), k, t \div Base), t % Base)

\* the quotient q and the remainder r of a by a natural d up to Base
RECURSIVE DivLimbs(_, _)
DivLimbs(a, d) ==
    IF a = <<>> THEN [q |-> <<>>, r |-> 0]
    ELSE LET p == DivLimbs(Front(a), d)
             t == p.r * Base + Last(a)
         IN [q |-> Append(p.q, t \div d), r |-> t % d]

\* a divided by 10^f: the quotient q, and whether it is exact
RECURSIVE DivPow10(_, _)
DivPow10(a, f) ==
    IF f = 0 THEN [q |-> a, exact |-> TRUE]
    ELSE LET p == DivPow10(a, f - 1)
             d == DivLimbs(p.q, 10)
         IN [q |-> d.q, exact |-> p.exact /\ d.r = 0]

\* a < b
LessLimbs(a, b) ==
    LET x == Normal(a)
        y == Normal(b)
    IN \/ Len(x) < Len(y)
       \/ /\ Len(x) = Len(y)
          /\ \E i \in 1..Len(x) : x[i] < y[i] /\ \A j \in 1..(i - 1) : x[j] = y[j]

\* The double nearest to the exact magnitude b (sticky: something non-zero
\* lies below the last limb of b); ties go to the even significand.  The
\* bits beyond the 53rd are `limbs' whole limbs and `bits' bits of the
\* limb above them.
RoundToDouble(b, sticky) ==
    LET n == Normal(b)
        len == LimbBits * (Len(n) - 1) + BitLen(n[1])
        shift == len - SignificandBits
        limbs == shift \div LimbBits
        bits == shift % LimbBits
        low == SubSeq(n, Len(n) - limbs + 1, Len(n))
        high == DivLimbs(SubSeq(n, 1, Len(n) - limbs), 2^bits)
        half == IF bits > 0 THEN high.r >= 2^(bits - 1)
                ELSE low[1] >= 2^(LimbBits - 1)
        more == \/ sticky
                \/ IF bits > 0
                   THEN high.r % 2^(bits - 1) # 0 \/ \E i \in 1..Len(low) : low[i] # 0
                   ELSE \/ low[1] % 2^(LimbBits - 1) # 0
                        \/ \E i \in 2..Len(low) : low[i] # 0
        up == half /\ (more \/ Last(high.q) % 2 = 1)
        kept == IF up THEN AddLimbs(high.q, <<>>, 1) ELSE high.q
    IN IF n = <<>> \/ len <= SignificandBits THEN n
       ELSE Normal(MulLimbs(kept, 2^bits, 0)) \o Zeros(limbs)

\* JavaScript numbers of the codec
F64NaN == [kind |-> "nan", neg |-> FALSE, limbs |-> <<>>]
F64Null == [kind |-> "null", neg |-> FALSE, limbs |-> <<>>]
F64Infinity(neg) == [kind |-> "inf", neg |-> neg, limbs |-> <<>>]
F64(neg, b) == [kind |-> "num", neg |-> neg, limbs |-> Normal(b)]

\* an integer as a double
F64FromInt(n) ==
    F64(n < 0, RoundToDouble(NatLimbs(IF n < 0 THEN 0 - n ELSE n) \o Zeros(FractionLimbs), FALSE))

\* the double nearest to n / 10^f
F64FromDecimal(neg, n, f) ==
    LET d == DivPow10(NatLimbs(n) \o Zeros(FractionLimbs), f)
    IN F64(neg, RoundToDouble(d.q, ~d.exact))

\* a + b on doubles
F64Plus(a, b) ==
    IF a.kind = "nan" \/ b.kind = "nan" THEN F64NaN
    ELSE IF a.kind = "inf" /\ b.kind = "inf"
    THEN (IF a.neg = b.neg THEN a ELSE F64NaN)
    ELSE IF a.kind = "inf" THEN a
    ELSE IF b.kind = "inf" THEN b
    ELSE IF a.neg = b.neg
    THEN F64(a.neg, RoundToDouble(AddLimbs(a.limbs, b.limbs, 0), FALSE))
    ELSE IF LessLimbs(a.limbs, b.limbs)
    THEN F64(b.neg, RoundToDouble(SubLimbs(b.limbs, a.limbs, 0), FALSE))
    ELSE F64(a.neg, RoundToDouble(SubLimbs(a.limbs, b.limbs, 0), FALSE))

\* a * k on doubles, for a natural k from 1 to Base
F64Times(a, k) ==
    IF a.kind = "num" THEN F64(a.neg, RoundToDouble(MulLimbs(a.limbs, k, 0), FALSE))
    ELSE a

\* parseFloat(s) as a double: leading blanks, a sign, then Infinity or
\* digits with an optional fraction.  Exponents are not typed, and at most
\* nine digits are.
ParseFloat64(str) ==
    LET t == TrimLeft(str)
        neg == t # <<>> /\ Head(t) = "-"
        u == IF t # <<>> /\ Head(t) \in {"-", "+"} THEN Tail(t) ELSE t
        n == DigitPrefixLen(u)
        afterInt == SubSeq(u, n + 1, Len(u))
        hasDot == afterInt # <<>> /\ Head(afterInt) = "."
        fracAll == IF hasDot THEN Tail(afterInt) ELSE <<>>
        f == DigitPrefixLen(fracAll)
        digits == SubSeq(u, 1, n) \o SubSeq(fracAll, 1, f)
    IN IF StartsWith(u, InfinityWord) THEN F64Infinity(neg)
       ELSE IF n = 0 /\ f = 0 THEN F64NaN
       ELSE F64FromDecimal(neg, DigitsValue(digits), f)

\* parseTimeString (lines 23-37) in double precision, in milliseconds
ParseTimeString64(str) ==
    LET t == Trim(str)
    IN IF t = <<>> THEN F64Null
       ELSE IF Includes(t, ":")
       THEN LET parts == Split(t, ":")
                ss == ParseFloat64(parts[2])
                m == ParseInt(parts[1])
            IN IF m = NaN \/ ss.kind = "nan" THEN F64Null
               ELSE F64Times(F64Plus(F64FromInt(m * 60), ss), 1000)
       ELSE LET s == ParseFloat64(t)
            IN IF s.kind = "nan" THEN F64Null ELSE F64Times(s, 1000)

\* String(n) of a natural number
RECURSIVE NatString(_)
NatString(n) ==
    IF n < 10 THEN <<Digits[n + 1]>>
    ELSE Append(NatString(n \div 10), Digits[(n % 10) + 1])

\* String.prototype.padStart(2, '0')
PadStart2(s) ==
    IF Len(s) = 0 THEN <<"0", "0">> ELSE IF Len(s) = 1 THEN <<"0">> \o s ELSE s

NaNWord == <<"N", "a", "N">>

\* formatTime (lines 14-21) of a duration in units of 1/10 ms.  Math.floor
\* of null is 0, Math.max(0, NaN) is NaN and Infinity % 60 is NaN.
FormatTime(u) ==
    LET total == IF u = NullNum \/ u = 0 - Infinity \/ u < 0 THEN 0 ELSE u \div 10
        s == total \div 1000
        m == s \div 60
        sec == s % 60
        cs == (total % 1000) \div 10
    IN IF u = NaN THEN NaNWord \o <<":">> \o NaNWord \o <<".">> \o NaNWord
       ELSE IF u = Infinity
       THEN InfinityWord \o <<":">> \o NaNWord \o <<".">> \o NaNWord
       ELSE PadStart2(NatString(m)) \o <<":">> \o PadStart2(NatString(sec))
                \o <<".">> \o PadStart2(NatString(cs))

----------------------------------------------------------------------------
(* Storage: lines 54-83 *)

Tabs == {"dogs", "record", "leaderboard", "charts", "settings"}
Sports == {"Sprint", "Agility", "Lure", "Flyball", "Training"}

\* defaultStore (lines 55-68); settings.activeDogId is not set
DefaultStore ==
    [version |-> 2,
     activeTab |-> "dogs",
     distances |-> <<100, 200, 50>>,
     dogs |-> <<>>,
     runs |-> <<>>,
     settings |-> [defaultDistanceM |-> 100, defaultSport |-> "Sprint",
                   units |-> "kmh", activeDogId |-> Undefined]]

\* the value of the binding `store` when line 83 threw
NoStore ==
    [version |-> 0, activeTab |-> "", distances |-> <<>>, dogs |-> <<>>,
     runs |-> <<>>,
     settings |-> [defaultDistanceM |-> NaN, defaultSport |-> "",
                   units |-> "", activeDogId |-> Undefined]]

Absent == [syntax |-> "absent"]
InvalidText == [syntax |-> "invalid"]
JsonText(v) == [syntax |-> "json", value |-> v]
JsonNull == [type |-> "null"]
JsonNumber == [type |-> "number"]
JsonObject(doc) == [type |-> "object", doc |-> doc]

\* JSON.stringify of a number: null when it is not finite
JsonNum(n) == IF IsFinite(n) THEN n ELSE NullNum

\* JSON.stringify(store) (lines 80 and 938), as the document JSON.parse
\* reads back: a key whose value is undefined is not written, a number
\* that is not finite is written as null
JSONStringify(s) ==
    [version |-> s.version,
     activeTab |-> s.activeTab,
     distances |-> [i \in 1..Len(s.distances) |-> JsonNum(s.distances[i])],
     dogs |-> s.dogs,
     runs |-> [i \in 1..Len(s.runs) |->
                  [s.runs[i] EXCEPT !.timeMs = JsonNum(@),
                                    !.distanceM = JsonNum(@)]],
     settings |->
        LET full == [s.settings EXCEPT !.defaultDistanceM = JsonNum(@)]
            keys == IF s.settings.activeDogId = Undefined
                    THEN DOMAIN full \ {"activeDogId"}
                    ELSE DOMAIN full
        IN [k \in keys |-> full[k]]]

\* reading a parsed document as the store: a missing settings.activeDogId
\* reads as undefined
AsStore(doc) ==
    [version |-> doc.version,
     activeTab |-> doc.activeTab,
     distances |-> doc.distances,
     dogs |-> doc.dogs,
     runs |-> doc.runs,
     settings |->
        [defaultDistanceM |-> doc.settings.defaultDistanceM,
         defaultSport |-> doc.settings.defaultSport,
         units |-> doc.settings.units,
         activeDogId |-> IF "activeDogId" \in DOMAIN doc.settings
                         THEN doc.settings.activeDogId ELSE Undefined]]

\* the text saveStore writes and Export downloads
StoreText(s) == JsonText(JsonObject(JSONStringify(s)))

\* safeJSONParse (lines 50-52)
SafeJSONParse(x, fallback) == IF x.syntax = "json" THEN x.value ELSE fallback

\* data.version is truthy
HasVersion(v) ==
    v.type = "object" /\ "version" \in DOMAIN v.doc /\ v.doc.version # 0

\* loadStore (lines 70-77): [threw, store]
LoadStore(raw) ==
    IF raw = Absent THEN [threw |-> FALSE, store |-> DefaultStore]
    ELSE LET s == SafeJSONParse(raw, JsonObject(DefaultStore))
         IN IF s.type = "null" THEN [threw |-> TRUE, store |-> NoStore]
            ELSE IF ~HasVersion(s) THEN [threw |-> FALSE, store |-> DefaultStore]
            ELSE [threw |-> FALSE, store |-> AsStore(s.doc)]

----------------------------------------------------------------------------
(* What the user types and picks, and what localStorage and a backup      *)
(* file may hold                                                           *)

Rex == <<"R", "e", "x">>
Vada == <<"V", "a", "d", "a">>
Jpeg == "data:image/jpeg"

\* the dog editor's name field
NameInputs == {Rex, <<" ", "R", "e", "x", " ">>, Vada, <<>>, <<" ">>}

\* uid() (line 11) never returns an id twice: the next id is the first of
\* the pool that nothing refers to
DogIdPool == <<"d1", "d2", "d3", "d4", "d5">>
RunIdPool == <<"r1", "r2", "r3", "r4">>

\* a store the application saved in an earlier session: two dogs, a run each
KennelStore ==
    [version |-> 2,
     activeTab |-> "record",
     distances |-> <<100, 200, 50>>,
     dogs |-> <<[id |-> "k1", name |-> Rex, photoDataUrl |-> Null],
                [id |-> "k2", name |-> Vada, photoDataUrl |-> Jpeg]>>,
     runs |-> <<[id |-> "q1", dogId |-> "k1", distanceM |-> 100,
                 timeMs |-> 10000, speedKmh |-> <<36, 0>>, createdAt |-> 1],
                [id |-> "q2", dogId |-> "k2", distanceM |-> 50,
                 timeMs |-> 4000, speedKmh |-> <<45, 0>>, createdAt |-> 2]>>,
     settings |-> [defaultDistanceM |-> 100, defaultSport |-> "Sprint",
                   units |-> "kmh", activeDogId |-> "k2"]]

\* a saved store whose two runs, both of the first dog and equally fast, are
\* not in the order of their createdAt
ShuffledStore ==
    [KennelStore EXCEPT
        !.runs = <<[id |-> "q1", dogId |-> "k1", distanceM |-> 100,
                    timeMs |-> 10000, speedKmh |-> <<36, 0>>, createdAt |-> 2],
                   [id |-> "q2", dogId |-> "k1", distanceM |-> 200,
                    timeMs |-> 20000, speedKmh |-> <<36, 0>>, createdAt |-> 1]>>]

\* a saved store whose first run was created when the wall clock was ahead
\* of what it is now (or on another device, and imported)
AheadStore ==
    [KennelStore EXCEPT !.runs[1].createdAt = 1000000,
                        !.settings.activeDogId = "k1"]

\* a store the application saved in an earlier session: one dog, no run, the
\* record tab open
OneDogStore ==
    [DefaultStore EXCEPT
        !.activeTab = "record",
        !.dogs = <<[id |-> "k1", name |-> Rex, photoDataUrl |-> Null]>>,
        !.settings.activeDogId = "k1"]

\* a document with a version whose second run belongs to no dog of the
\* document
OrphanDoc ==
    JSONStringify([KennelStore EXCEPT !.dogs = <<KennelStore.dogs[1]>>,
                                      !.settings.activeDogId = Undefined,
                                      !.activeTab = "dogs"])

\* a document with a version whose distances repeat and do not hold the
\* default distance
SkewedDoc ==
    JSONStringify([DefaultStore EXCEPT !.distances = <<200, 200>>,
                                       !.settings.defaultDistanceM = 50])

\* a document without the version key
VersionlessDoc ==
    LET d == JSONStringify(KennelStore)
    IN [k \in DOMAIN d \ {"version"} |-> d[k]]

ForeignTexts ==
    {InvalidText, JsonText(JsonNull), JsonText(JsonNumber),
     JsonText(JsonObject(VersionlessDoc)), JsonText(JsonObject(OrphanDoc)),
     JsonText(JsonObject(SkewedDoc))}

\* what localStorage may hold when the page is opened
PersistedValues == {Absent, StoreText(KennelStore)} \cup ForeignTexts

----------------------------------------------------------------------------
(* Derived data: lines 131-157 *)

DogIds(s) == {s.dogs[i].id : i \in 1..Len(s.dogs)}

\* Array.prototype.sort with the comparator a.createdAt.localeCompare(
\* b.createdAt): stable, ascending by createdAt (insertion sort)
RECURSIVE SortByCreatedAt(_)
SortByCreatedAt(rr) ==
    IF rr = <<>> THEN <<>>
    ELSE LET front == SortByCreatedAt(SubSeq(rr, 1, Len(rr) - 1))
             r == rr[Len(rr)]
             k == Cardinality({i \in 1..Len(front) : front[i].createdAt <= r.createdAt})
         IN SubSeq(front, 1, k) \o <<r>> \o SubSeq(front, k + 1, Len(front))

\* runsForDog (lines 138-140)
RunsForDog(s, dogId) ==
    LET OfDog(r) == r.dogId = dogId
    IN SortByCreatedAt(SelectSeq(s.runs, OfDog))

\* the reduce of line 145 over rr[1..n]; NoRun for null
NoRun == [id |-> Null]

\* a faulty variant of the reduce: a run as fast as the best replaces it
RECURSIVE ReduceBestLast(_, _)
ReduceBestLast(rr, n) ==
    IF n = 0 THEN NoRun
    ELSE LET best == ReduceBestLast(rr, n - 1)
             r == rr[n]
         IN IF best = NoRun \/ ~SpeedGreater(best.speedKmh, r.speedKmh)
            THEN r ELSE best

RECURSIVE ReduceBest(_, _)
ReduceBest(rr, n) ==
    IF n = 0 THEN NoRun
    ELSE LET best == ReduceBest(rr, n - 1)
             r == rr[n]
         IN IF best = NoRun \/ SpeedGreater(r.speedKmh, best.speedKmh)
            THEN r ELSE best

\* bestRunForDog (lines 142-146)
BestRunForDog(s, dogId) ==
    LET rr == RunsForDog(s, dogId)
    IN IF Len(rr) = 0 THEN NoRun ELSE ReduceBest(rr, Len(rr))

\* a faulty variant of the sort of line 155: ascending by pb.speedKmh
RECURSIVE SortByPbAsc(_)
SortByPbAsc(rows) ==
    IF rows = <<>> THEN <<>>
    ELSE LET front == SortByPbAsc(SubSeq(rows, 1, Len(rows) - 1))
             x == rows[Len(rows)]
             k == Cardinality({i \in 1..Len(front) :
                     ~SpeedGreater(front[i].pb.speedKmh, x.pb.speedKmh)})
         IN SubSeq(front, 1, k) \o <<x>> \o SubSeq(front, k + 1, Len(front))

\* Array.prototype.sort with the comparator b.pb.speedKmh - a.pb.speedKmh:
\* stable, descending by pb.speedKmh
RECURSIVE SortByPbDesc(_)
SortByPbDesc(rows) ==
    IF rows = <<>> THEN <<>>
    ELSE LET front == SortByPbDesc(SubSeq(rows, 1, Len(rows) - 1))
             x == rows[Len(rows)]
             k == Cardinality({i \in 1..Len(front) :
                     ~SpeedGreater(x.pb.speedKmh, front[i].pb.speedKmh)})
         IN SubSeq(front, 1, k) \o <<x>> \o SubSeq(front, k + 1, Len(front))

\* leaderboard (lines 148-157)
Leaderboard(s) ==
    LET rows == [i \in 1..Len(s.dogs) |->
                    [dog |-> s.dogs[i], pb |-> BestRunForDog(s, s.dogs[i].id)]]
        HasPb(x) == x.pb # NoRun
    IN SortByPbDesc(SelectSeq(rows, HasPb))

----------------------------------------------------------------------------
(* The page after its script has run: lines 83, 129, 606 and 1021 *)

\* a faulty variant of saveStore: what is written is the store as it was
\* when the handler began
SaveStoreStale(s) == StoreText(store)

\* saveStore (lines 79-81)
SaveStore(s) == StoreText(s)

Handlers == boot = "ok"
OnTab(tab) == Handlers /\ store.activeTab = tab

\* #recordDog, #startStopBtn, #saveRunBtn, ... are rendered only when there
\* is a dog (line 293); every handler that changes store.dogs ends in render()
RecordForm == OnTab("record") /\ Len(store.dogs) > 0

InitFrom(raws) ==
    \E raw \in raws :
        LET r == LoadStore(raw)
            \* setTab(store.activeTab || "dogs") (line 129)
            s == [r.store EXCEPT !.activeTab = IF @ = "" THEN "dogs" ELSE @]
        IN /\ boot = IF r.threw THEN "TypeError" ELSE "ok"
           /\ store = IF r.threw THEN NoStore ELSE s
           /\ persisted = IF r.threw THEN raw ELSE SaveStore(s)
           /\ timer = [running |-> FALSE, start |-> 0, elapsed |-> 0]
           /\ raf = FALSE
           /\ now = 0
           /\ pending = <<>>
           /\ lastStart = [at |-> 0, from |-> 0]
           /\ toasted = ""

Init == InitFrom(PersistedValues)

\* setTab (lines 122-127)
SetTab(tab) ==
    /\ Handlers
    /\ store' = [store EXCEPT !.activeTab = tab]
    /\ persisted' = SaveStore(store')
    /\ toasted' = ""
    /\ UNCHANGED <<boot, timer, raf, now, pending, lastStart>>

----------------------------------------------------------------------------
(* Dogs: lines 485-602 *)

PendingDogs == {pending[i].dog.id : i \in {j \in 1..Len(pending) : pending[j].kind = "dog"}}

UsedDogIds ==
    DogIds(store) \cup {store.runs[i].dogId : i \in 1..Len(store.runs)}
        \cup {store.settings.activeDogId} \cup PendingDogs

\* uid() (line 11) for a dog
FreshDogId ==
    DogIdPool[CHOOSE i \in 1..Len(DogIdPool) :
                 /\ DogIdPool[i] \notin UsedDogIds
                 /\ \A j \in 1..(i - 1) : DogIdPool[j] \in UsedDogIds]

CanAddDog ==
    /\ Len(store.dogs) + Cardinality(PendingDogs \ DogIds(store)) < MaxDogs
    /\ \E i \in 1..Len(DogIdPool) : DogIdPool[i] \notin UsedDogIds

\* String.prototype.toLowerCase, for the letters that are typed
ToLower(str) ==
    [i \in 1..Len(str) |-> CASE str[i] = "V" -> "v" [] str[i] = "R" -> "r"
                             [] OTHER -> str[i]]

\* applyDog (lines 591-601), up to saveStore
ApplyDog(s, d, isEdit) ==
    [s EXCEPT !.dogs = IF isEdit
                       THEN [i \in 1..Len(@) |-> IF @[i].id = d.id THEN d ELSE @[i]]
                       ELSE Append(@, d),
              !.settings.activeDogId = d.id]

\* #quickAddVada (lines 487-492)
QuickAddVada ==
    /\ OnTab("dogs")
    /\ CanAddDog
    /\ IF \E i \in 1..Len(store.dogs) : ToLower(store.dogs[i].name) = ToLower(Vada)
       THEN /\ toasted' = "Vada already exists"
            /\ UNCHANGED <<store, persisted>>
       ELSE /\ store' = [store EXCEPT !.dogs =
                    Append(@, [id |-> FreshDogId, name |-> Vada, photoDataUrl |-> Null])]
            /\ persisted' = SaveStore(store')
            /\ toasted' = ""
    /\ UNCHANGED <<boot, timer, raf, now, pending, lastStart>>

\* #clearDogsBtn (lines 494-501), the confirm answered yes
ClearDogs ==
    /\ OnTab("dogs")
    /\ store' = [store EXCEPT !.dogs = <<>>, !.runs = <<>>,
                              !.settings.activeDogId = Undefined]
    /\ persisted' = SaveStore(store')
    /\ toasted' = ""
    /\ UNCHANGED <<boot, timer, raf, now, pending, lastStart>>

\* store.dogs.find(d => d.id === dogId) (line 508): the index of the dog found
FindDogIndex(s, dogId) ==
    CHOOSE i \in 1..Len(s.dogs) :
        s.dogs[i].id = dogId /\ \A j \in 1..(i - 1) : s.dogs[j].id # dogId

FindDog(s, dogId) == s.dogs[FindDogIndex(s, dogId)]

\* #dogList, action selectDog (lines 511-516)
SelectDog(i) ==
    /\ OnTab("dogs")
    /\ store' = [store EXCEPT !.settings.activeDogId = store.dogs[i].id,
                              !.activeTab = "record"]
    /\ persisted' = SaveStore(store')
    /\ toasted' = "Selected"
    /\ UNCHANGED <<boot, timer, raf, now, pending, lastStart>>

\* faulty variants of deleteDog, which the properties of deleteDog must tell
\* from the handler: without the cascade to the runs, ...
DeleteDogKeepingRuns(s, dogId) ==
    LET NotIt(d) == d.id # dogId
        dogs == SelectSeq(s.dogs, NotIt)
    IN [s EXCEPT !.dogs = dogs,
                 !.settings.activeDogId =
                     IF @ = dogId
                     THEN (IF Len(dogs) > 0 THEN dogs[1].id ELSE Undefined)
                     ELSE @]

\* ... dropping the runs of every dog, ...
DeleteDogDroppingAllRuns(s, dogId) ==
    LET NotIt(d) == d.id # dogId
        dogs == SelectSeq(s.dogs, NotIt)
    IN [s EXCEPT !.dogs = dogs,
                 !.runs = <<>>,
                 !.settings.activeDogId =
                     IF @ = dogId
                     THEN (IF Len(dogs) > 0 THEN dogs[1].id ELSE Undefined)
                     ELSE @]

\* ... and clearing the active dog even though a dog remains
DeleteDogClearingActive(s, dogId) ==
    LET NotIt(d) == d.id # dogId
        NotOfIt(r) == r.dogId # dogId
    IN [s EXCEPT !.dogs = SelectSeq(s.dogs, NotIt),
                 !.runs = SelectSeq(s.runs, NotOfIt),
                 !.settings.activeDogId = IF @ = dogId THEN Undefined ELSE @]

\* the store after #dogList, action deleteDog (lines 520-527), the confirm
\* answered yes
DeleteDogFrom(s, dogId) ==
    LET NotIt(d) == d.id # dogId
        NotOfIt(r) == r.dogId # dogId
        dogs == SelectSeq(s.dogs, NotIt)
    IN [s EXCEPT !.dogs = dogs,
                 !.runs = SelectSeq(s.runs, NotOfIt),
                 !.settings.activeDogId =
                     IF @ = dogId
                     THEN (IF Len(dogs) > 0 /\ dogs[1].id # "" THEN dogs[1].id ELSE Undefined)
                     ELSE @]

DeleteDog(i) ==
    /\ OnTab("dogs")
    /\ store' = DeleteDogFrom(store, store.dogs[i].id)
    /\ persisted' = SaveStore(store')
    /\ toasted' = ""
    /\ UNCHANGED <<boot, timer, raf, now, pending, lastStart>>

\* #dogEditorForm submit (lines 569-589) of the editor opened by #addDogBtn
\* (line 486); with a file the handler is suspended at line 583
AddDog(input, withFile) ==
    /\ OnTab("dogs")
    /\ CanAddDog
    /\ LET name == Trim(input)
           dog == [id |-> FreshDogId, name |-> name, photoDataUrl |-> Null]
       IN IF name = <<>>
          THEN UNCHANGED <<store, persisted, pending>>
          ELSE IF withFile
          THEN /\ Len(pending) < MaxPending
               /\ pending' = Append(pending, [kind |-> "dog", dog |-> dog, isEdit |-> FALSE])
               /\ UNCHANGED <<store, persisted>>
          ELSE /\ store' = ApplyDog(store, dog, FALSE)
               /\ persisted' = SaveStore(store')
               /\ UNCHANGED pending
    /\ toasted' = ""
    /\ UNCHANGED <<boot, timer, raf, now, lastStart>>

\* the same submit of the editor opened by action editDog (lines 517-519):
\* `dog` is the object of store.dogs, so lines 577-579 change the store in
\* place before applyDog saves it
EditDog(i, input, withFile) ==
    /\ OnTab("dogs")
    /\ LET name == Trim(input)
           existing == FindDog(store, store.dogs[i].id)
           dog == [existing EXCEPT !.name = name]
           inPlace == [store EXCEPT !.dogs[FindDogIndex(store, existing.id)] = dog]
       IN IF name = <<>>
          THEN UNCHANGED <<store, persisted, pending>>
          ELSE IF withFile
          THEN /\ Len(pending) < MaxPending
               /\ pending' = Append(pending, [kind |-> "dog", dog |-> dog, isEdit |-> TRUE])
               /\ store' = inPlace
               /\ UNCHANGED persisted
          ELSE /\ store' = ApplyDog(inPlace, dog, TRUE)
               /\ persisted' = SaveStore(store')
               /\ UNCHANGED pending
    /\ toasted' = ""
    /\ UNCHANGED <<boot, timer, raf, now, lastStart>>

\* #removePhoto (lines 564-567)
RemovePhoto(i) ==
    /\ OnTab("dogs")
    /\ LET existing == FindDog(store, store.dogs[i].id)
       IN /\ existing.photoDataUrl # Null
          /\ store' = ApplyDog(store, [existing EXCEPT !.photoDataUrl = Null], TRUE)
    /\ persisted' = SaveStore(store')
    /\ toasted' = ""
    /\ UNCHANGED <<boot, timer, raf, now, pending, lastStart>>

\* the rest of the submit handler after await fileToDataURL (lines 583-588):
\* the photo was read, or reading it threw
ResumeDog(k, photoRead) ==
    /\ Handlers
    /\ pending[k].kind = "dog"
    /\ LET p == pending[k]
           dog == IF photoRead THEN [p.dog EXCEPT !.photoDataUrl = Jpeg] ELSE p.dog
       IN /\ store' = ApplyDog(store, dog, p.isEdit)
          /\ persisted' = SaveStore(store')
    /\ toasted' = IF photoRead THEN "" ELSE "Could not read photo"
    /\ pending' = SubSeq(pending, 1, k - 1) \o SubSeq(pending, k + 1, Len(pending))
    /\ UNCHANGED <<boot, timer, raf, now, lastStart>>

----------------------------------------------------------------------------
(* Record: lines 605-767 *)

\* the clock advances by one of these (1/10 ms): 0.4 ms, 5 s
Durations == <<4, 50000>>

ClockSteps == now \div Durations[2] + (now % Durations[2]) \div Durations[1]

TimePasses(d) ==
    /\ ClockSteps < MaxNow
    /\ now' = now + d
    /\ UNCHANGED <<boot, store, persisted, timer, raf, pending, lastStart, toasted>>

\* nowISO() (line 10): the wall clock, in ms; it runs with performance.now()
NowISO == 100 + now \div 10

\* the value of #recordDog (lines 281 and 298): the option of the active dog,
\* the first option when no option is the active dog's
RecordDogValue(s) ==
    IF s.settings.activeDogId \in DogIds(s) THEN s.settings.activeDogId
    ELSE s.dogs[1].id

\* #recordDog change (lines 614-618)
ChangeRecordDog(i) ==
    /\ RecordForm
    /\ store' = [store EXCEPT !.settings.activeDogId = store.dogs[i].id]
    /\ persisted' = SaveStore(store')
    /\ toasted' = ""
    /\ UNCHANGED <<boot, timer, raf, now, pending, lastStart>>

\* a faulty variant of startTimer: the start reference forgets timer.elapsed
StartTimerFromNow(t) == [t EXCEPT !.running = TRUE, !.start = now]

\* startTimer (lines 726-732)
StartTimer(t) == [t EXCEPT !.running = TRUE, !.start = Minus(now, t.elapsed)]

\* stopTimer (lines 734-740)
StopTimer(t) == [t EXCEPT !.running = FALSE]

\* a faulty variant of resetTimer: timer.elapsed is left as it is
ResetTimerKeepingElapsed(t) == [t EXCEPT !.running = FALSE]

\* a faulty variant of resetTimer: timer.running is left as it is
ResetTimerStillRunning(t) == [t EXCEPT !.elapsed = 0]

\* resetTimer (lines 742-749)
ResetTimer(t) == [t EXCEPT !.running = FALSE, !.elapsed = 0]

\* #startStopBtn (lines 621-624)
StartStop ==
    /\ RecordForm
    /\ IF ~timer.running
       THEN /\ timer' = StartTimer(timer)
            /\ raf' = TRUE
            /\ lastStart' = [at |-> now, from |-> timer.elapsed]
       ELSE /\ timer' = StopTimer(timer)
            /\ raf' = FALSE
            /\ UNCHANGED lastStart
    /\ toasted' = ""
    /\ UNCHANGED <<boot, store, persisted, now, pending>>

\* #resetBtn (lines 626-629)
Reset ==
    /\ RecordForm
    /\ timer' = ResetTimer(timer)
    /\ raf' = FALSE
    /\ toasted' = ""
    /\ UNCHANGED <<boot, store, persisted, now, pending, lastStart>>

\* a faulty variant of tick: a refresh that is never cancelled and does not
\* look at timer.running
TickUnconditional ==
    /\ Handlers
    /\ timer' = [timer EXCEPT !.elapsed = Minus(now, timer.start)]
    /\ UNCHANGED <<boot, store, persisted, raf, now, pending, lastStart, toasted>>

\* tick (lines 718-724), called by the animation frame scheduled at line 723
\* or 731.  Outside the rendered record form $("#timerDisplay") is null,
\* line 721 throws and no further frame is requested.
Tick ==
    /\ Handlers
    /\ raf
    /\ IF ~timer.running
       THEN /\ raf' = FALSE
            /\ UNCHANGED timer
       ELSE /\ timer' = [timer EXCEPT !.elapsed = Minus(now, timer.start)]
            /\ raf' = RecordForm
    /\ UNCHANGED <<boot, store, persisted, now, pending, lastStart, toasted>>

\* what is typed into #manualTime
Sec10 == <<"1", "0">>
\* 0.4 ms
TenthMs == <<"0", ".", "0", "0", "0", "4">>
\* no time, or a time that is not positive
RejectedTimes ==
    {<<"0">>, <<"-", "1">>, <<"a", "b", "c">>, <<>>, <<" ">>,
     <<"1", ":", "x">>, <<"-", "1", ":", "3", "0">>}
ManualInputs ==
    {Sec10, <<"0", "0", ":", "0", "5", ".", "0", "0">>, InfinityWord, TenthMs}
        \cup RejectedTimes

\* a faulty variant of the #manualForm submit: only a null time is refused
ManualEntryOnlyNull(input) ==
    /\ RecordForm
    /\ LET ms == ParseTimeString(input)
       IN IF ms = NullNum
          THEN /\ toasted' = "Enter a valid time"
               /\ UNCHANGED <<timer, raf>>
          ELSE /\ timer' = [timer EXCEPT !.elapsed = ms, !.running = FALSE]
               /\ raf' = FALSE
               /\ toasted' = ""
    /\ UNCHANGED <<boot, store, persisted, now, pending, lastStart>>

\* #manualForm submit (lines 647-658)
ManualEntry(input) ==
    /\ RecordForm
    /\ LET ms == ParseTimeString(input)
       IN IF ms = NullNum \/ ms <= 0
          THEN /\ toasted' = "Enter a valid time"
               /\ UNCHANGED <<timer, raf>>
          ELSE /\ timer' = [timer EXCEPT !.elapsed = ms, !.running = FALSE]
               /\ raf' = FALSE
               /\ toasted' = ""
    /\ UNCHANGED <<boot, store, persisted, now, pending, lastStart>>

UsedRunIds == {store.runs[i].id : i \in 1..Len(store.runs)}

\* uid() (line 11) for a run
FreshRunId ==
    RunIdPool[CHOOSE i \in 1..Len(RunIdPool) :
                 /\ RunIdPool[i] \notin UsedRunIds
                 /\ \A j \in 1..(i - 1) : RunIdPool[j] \in UsedRunIds]

\* the option #recordDistance shows when the form is rendered (lines
\* 284-288): the default distance, the first (smallest) option when the
\* default distance is no option
PreselectedDistance(s) ==
    IF Includes(s.distances, s.settings.defaultDistanceM)
    THEN s.settings.defaultDistanceM
    ELSE CHOOSE d \in SeqRange(s.distances) : \A e \in SeqRange(s.distances) : d <= e

\* the run built at lines 671-680
NewRun(dogId, distanceM) ==
    [id |-> FreshRunId, dogId |-> dogId, distanceM |-> distanceM,
     timeMs |-> RoundMs(timer.elapsed),
     speedKmh |-> SpeedKmh4(distanceM, timer.elapsed),
     createdAt |-> NowISO]

\* a faulty variant of #saveRunBtn: line 668 (timer.running) is left out
SaveRunWhileRunning(distanceM) ==
    /\ RecordForm
    /\ Len(store.runs) < MaxRuns
    /\ \E i \in 1..Len(RunIdPool) : RunIdPool[i] \notin UsedRunIds
    /\ Includes(store.distances, distanceM)
    /\ IF timer.elapsed <= 0
       THEN /\ toasted' = "Record a time first"
            /\ UNCHANGED <<store, persisted, timer, raf>>
       ELSE LET dogId == RecordDogValue(store)
                run == NewRun(dogId, distanceM)
            IN /\ store' = [store EXCEPT !.runs = Append(@, run)]
               /\ persisted' = SaveStore(store')
               /\ toasted' = IF BestRunForDog(store', dogId).id = run.id
                             THEN "Saved! New PB" ELSE "Saved run"
               /\ timer' = ResetTimer(timer)
               /\ raf' = FALSE
    /\ UNCHANGED <<boot, now, pending, lastStart>>

\* #saveRunBtn (lines 661-692); distanceM is the option picked in
\* #recordDistance
SaveRun(distanceM) ==
    /\ RecordForm
    /\ Len(store.runs) < MaxRuns
    /\ \E i \in 1..Len(RunIdPool) : RunIdPool[i] \notin UsedRunIds
    /\ Includes(store.distances, distanceM)
    /\ IF timer.running
       THEN /\ toasted' = "Stop the timer first"
            /\ UNCHANGED <<store, persisted, timer, raf>>
       ELSE IF timer.elapsed <= 0
       THEN /\ toasted' = "Record a time first"
            /\ UNCHANGED <<store, persisted, timer, raf>>
       ELSE LET dogId == RecordDogValue(store)
                run == NewRun(dogId, distanceM)
            IN /\ store' = [store EXCEPT !.runs = Append(@, run)]
               /\ persisted' = SaveStore(store')
               /\ toasted' = IF BestRunForDog(store', dogId).id = run.id
                             THEN "Saved! New PB" ELSE "Saved run"
               /\ timer' = ResetTimer(timer)
               /\ raf' = FALSE
    /\ UNCHANGED <<boot, now, pending, lastStart>>

\* the dog whose recent runs viewRecord shows (lines 281-282 and 343)
ViewDogId(s) ==
    IF s.settings.activeDogId # Undefined THEN s.settings.activeDogId
    ELSE s.dogs[1].id

RecentRuns == RecordForm /\ ViewDogId(store) \in DogIds(store)

\* #clearRunsForDog (lines 694-702), the confirm answered yes
ClearRunsForDog ==
    /\ RecentRuns
    /\ LET dogId == IF store.settings.activeDogId # Undefined
                    THEN store.settings.activeDogId ELSE RecordDogValue(store)
           NotOfIt(r) == r.dogId # dogId
       IN store' = [store EXCEPT !.runs = SelectSeq(@, NotOfIt)]
    /\ persisted' = SaveStore(store')
    /\ toasted' = ""
    /\ UNCHANGED <<boot, timer, raf, now, pending, lastStart>>

\* tbody, action deleteRun (lines 704-713), the confirm answered yes; the
\* table shows the runs of the viewed dog (line 353)
DeleteRun(runId) ==
    /\ RecentRuns
    /\ \E i \in 1..Len(store.runs) :
          store.runs[i].id = runId /\ store.runs[i].dogId = ViewDogId(store)
    /\ LET NotIt(r) == r.id # runId
       IN store' = [store EXCEPT !.runs = SelectSeq(@, NotIt)]
    /\ persisted' = SaveStore(store')
    /\ toasted' = ""
    /\ UNCHANGED <<boot, timer, raf, now, pending, lastStart>>

\* #chartDogSelect change (lines 772-776)
ChangeChartDog(i) ==
    /\ OnTab("charts")
    /\ store' = [store EXCEPT !.settings.activeDogId = store.dogs[i].id]
    /\ persisted' = SaveStore(store')
    /\ toasted' = ""
    /\ UNCHANGED <<boot, timer, raf, now, pending, lastStart>>

----------------------------------------------------------------------------
(* Settings: lines 894-983 *)

\* #defaultDistance change (lines 896-900); d is the option picked
SetDefaultDistance(d) ==
    /\ OnTab("settings")
    /\ Includes(store.distances, d)
    /\ store' = [store EXCEPT !.settings.defaultDistanceM = d]
    /\ persisted' = SaveStore(store')
    /\ toasted' = "Saved"
    /\ UNCHANGED <<boot, timer, raf, now, pending, lastStart>>

\* #defaultSport change (lines 901-905)
SetDefaultSport(sport) ==
    /\ OnTab("settings")
    /\ store' = [store EXCEPT !.settings.defaultSport = sport]
    /\ persisted' = SaveStore(store')
    /\ toasted' = "Saved"
    /\ UNCHANGED <<boot, timer, raf, now, pending, lastStart>>

\* what is typed into #distInput
DistInputs ==
    {<<"2", "0", "0", ",", " ", "5", "0">>,
     <<"5", "0", ",", "2", "0", "0">>,
     <<"1", "0", "0", ",", "1", "0", "0", ",", "5", "0">>,
     <<"a", ",", "0", ",", "-", "5">>,
     <<>>}

\* thirteen different distances
ThirteenDistances ==
    <<"1", ",", "2", ",", "3", ",", "4", ",", "5", ",", "6", ",", "7", ",",
      "8", ",", "9", ",", "1", "0", ",", "1", "1", ",", "1", "2", ",", "1", "3">>

\* lines 924-925: the distances read from the input
ReadDistances(input) ==
    LET pieces == Split(input, ",")
        raw == [i \in 1..Len(pieces) |-> ParseInt(Trim(pieces[i]))]
        Valid(n) == IsFinite(n) /\ n > 0
    IN Slice0(Uniq(SelectSeq(raw, Valid)), 12)

\* the smallest of a non-empty list of distances
Smallest(distances) ==
    CHOOSE d \in SeqRange(distances) : \A e \in SeqRange(distances) : d <= e

\* a faulty variant of lines 928-930: the fallback is the smallest distance
DefaultAfterSmallest(distances, defaultDistanceM) ==
    IF ~Includes(distances, defaultDistanceM) THEN Smallest(distances)
    ELSE defaultDistanceM

\* the default distance after line 927 set store.distances (lines 928-930)
DefaultAfter(distances, defaultDistanceM) ==
    IF ~Includes(distances, defaultDistanceM) THEN distances[1]
    ELSE defaultDistanceM

\* a faulty variant of the #distForm submit: the runs over a distance that
\* is no longer configured are dropped
SetDistancesPruningRuns(input) ==
    /\ OnTab("settings")
    /\ LET uniq == ReadDistances(input)
           Configured(run) == Includes(uniq, run.distanceM)
       IN IF Len(uniq) = 0
          THEN /\ toasted' = "Enter at least one distance"
               /\ UNCHANGED <<store, persisted>>
          ELSE /\ store' = [store EXCEPT
                              !.distances = uniq,
                              !.runs = SelectSeq(@, Configured),
                              !.settings.defaultDistanceM = DefaultAfter(uniq, @)]
               /\ persisted' = SaveStore(store')
               /\ toasted' = ""
    /\ UNCHANGED <<boot, timer, raf, now, pending, lastStart>>

\* #distForm submit (lines 922-934)
SetDistances(input) ==
    /\ OnTab("settings")
    /\ LET uniq == ReadDistances(input)
       IN IF Len(uniq) = 0
          THEN /\ toasted' = "Enter at least one distance"
               /\ UNCHANGED <<store, persisted>>
          ELSE /\ store' = [store EXCEPT
                              !.distances = uniq,
                              !.settings.defaultDistanceM = DefaultAfter(uniq, @)]
               /\ persisted' = SaveStore(store')
               /\ toasted' = ""
    /\ UNCHANGED <<boot, timer, raf, now, pending, lastStart>>

\* #exportBtn (lines 937-945): the text of the downloaded file
ExportData(s) == StoreText(s)

Export ==
    /\ OnTab("settings")
    /\ toasted' = "Export started"
    /\ UNCHANGED <<boot, store, persisted, timer, raf, now, pending, lastStart>>

\* the files the user can pick in #importFile: a foreign file, a backup of
\* an earlier session; Absent for none
ImportFiles == ForeignTexts \cup {StoreText(KennelStore), Absent}

\* #importForm submit (lines 962-966), up to await file.text()
Import(file) ==
    /\ OnTab("settings")
    /\ IF file = Absent
       THEN /\ toasted' = "Select a file"
            /\ UNCHANGED pending
       ELSE /\ Len(pending) < MaxPending
            /\ pending' = Append(pending, [kind |-> "import", text |-> file])
            /\ toasted' = ""
    /\ UNCHANGED <<boot, store, persisted, timer, raf, now, lastStart>>

\* a faulty variant of line 967: the fallback is a default store
ImportParseOrDefault(text) == SafeJSONParse(text, JsonObject(JSONStringify(DefaultStore)))

\* line 967
ImportParse(text) == SafeJSONParse(text, JsonNull)

\* line 968: the parsed data is accepted
ImportAccepts(text) ==
    LET data == ImportParse(text)
    IN data.type # "null" /\ HasVersion(data)

\* line 969: the store after an accepted import
ImportData(text) == AsStore(ImportParse(text).doc)

\* the rest of the submit handler (lines 967-973)
ResumeImport(k) ==
    /\ Handlers
    /\ pending[k].kind = "import"
    /\ IF ~ImportAccepts(pending[k].text)
       THEN /\ toasted' = "Invalid backup file"
            /\ UNCHANGED <<store, persisted>>
       ELSE /\ store' = ImportData(pending[k].text)
            /\ persisted' = SaveStore(store')
            /\ toasted' = "Imported"
    /\ pending' = SubSeq(pending, 1, k - 1) \o SubSeq(pending, k + 1, Len(pending))
    /\ UNCHANGED <<boot, timer, raf, now, lastStart>>

\* #factoryReset (lines 977-982), the confirm answered yes
FactoryReset ==
    /\ OnTab("settings")
    /\ store' = DefaultStore
    /\ persisted' = SaveStore(store')
    /\ toasted' = ""
    /\ UNCHANGED <<boot, timer, raf, now, pending, lastStart>>

----------------------------------------------------------------------------
(* Specifications *)

DogIndex == 1..Len(store.dogs)

\* the dogs tab, with the editor's suspended submit handlers; names are the
\* names typed into the editor
DogsNext(names) ==
    \/ QuickAddVada
    \/ ClearDogs
    \/ \E i \in DogIndex : SelectDog(i)
    \/ \E i \in DogIndex : DeleteDog(i)
    \/ \E input \in names, withFile \in BOOLEAN : AddDog(input, withFile)
    \/ \E i \in DogIndex, input \in names, withFile \in BOOLEAN :
          EditDog(i, input, withFile)
    \/ \E i \in DogIndex : RemovePhoto(i)
    \/ \E k \in 1..Len(pending), photoRead \in BOOLEAN : ResumeDog(k, photoRead)

\* the dogs tab when no photo is picked in the editor
DogsNoPhotoNext(names) ==
    \/ QuickAddVada
    \/ ClearDogs
    \/ \E i \in DogIndex : SelectDog(i)
    \/ \E i \in DogIndex : DeleteDog(i)
    \/ \E input \in names : AddDog(input, FALSE)
    \/ \E i \in DogIndex, input \in names : EditDog(i, input, FALSE)
    \/ \E i \in DogIndex : RemovePhoto(i)

\* the record form without the stopwatch; times are the times typed into
\* the manual form; with anyDistance FALSE the option preselected in
\* #recordDistance is kept
RecordNext(times, anyDistance) ==
    \/ \E input \in times : ManualEntry(input)
    \/ \E d \in SeqRange(store.distances) :
          (anyDistance \/ d = PreselectedDistance(store)) /\ SaveRun(d)

\* the dog picked and the recent runs of the record tab
RunListNext ==
    \/ \E i \in DogIndex : ChangeRecordDog(i)
    \/ ClearRunsForDog
    \/ \E r \in UsedRunIds : DeleteRun(r)

\* the charts tab
ChartsNext == \E i \in DogIndex : ChangeChartDog(i)

\* the buttons of the stopwatch
ButtonsNext ==
    \/ StartStop
    \/ Reset

\* the clock and the animation frames
ClockNext ==
    \/ Tick
    \/ \E d \in SeqRange(Durations) : TimePasses(d)

\* the stopwatch
StopwatchNext ==
    \/ ButtonsNext
    \/ ClockNext

\* the settings tab without the backup; inputs are the lists typed into the
\* distances form, sports the sports picked
SettingsNext(inputs, sports) ==
    \/ \E d \in SeqRange(store.distances) : SetDefaultDistance(d)
    \/ \E sport \in sports : SetDefaultSport(sport)
    \/ \E input \in inputs : SetDistances(input)

\* export and import; files are the files picked in the import form
BackupNext(files) ==
    \/ Export
    \/ \E file \in files : Import(file)
    \/ \E k \in 1..Len(pending) : ResumeImport(k)

\* the file Export writes is picked in the import form
RestoreNext == Import(ExportData(store))

TabNext(tabs) == \E tab \in tabs : SetTab(tab)

\* every handler of the page
Next ==
    \/ TabNext(Tabs)
    \/ DogsNext(NameInputs)
    \/ RecordNext(ManualInputs, TRUE)
    \/ RunListNext
    \/ ChartsNext
    \/ StopwatchNext
    \/ SettingsNext(DistInputs \cup {ThirteenDistances}, Sports)
    \/ BackupNext(ImportFiles)
    \/ RestoreNext
    \/ FactoryReset

Spec == Init /\ [][Next]_vars

\* dogs and runs, from the default store: no load of a saved store, no
\* import; one name and one time are typed, the preselected distance is kept
InitDefault == InitFrom({Absent})
NormalNext ==
    \/ TabNext(Tabs \ {"leaderboard"})
    \/ DogsNext({<<" ", "R", "e", "x", " ">>, <<>>})
    \/ RecordNext({Sec10, <<>>}, FALSE)
    \/ RunListNext
    \/ ChartsNext
    \/ FactoryReset
SpecNormal == InitDefault /\ [][NormalNext]_vars

\* the dogs tab, from whatever localStorage holds when the page opens
LoadedNext ==
    \/ TabNext({"dogs"})
    \/ DogsNext({<<" ", "R", "e", "x", " ">>})
SpecLoaded == Init /\ [][LoadedNext]_vars

\* the import form, between changes of the tab and of the runs
ImportSpecNext ==
    \/ TabNext({"settings", "record"})
    \/ BackupNext(ImportFiles)
    \/ RestoreNext
    \/ RunListNext
    \/ FactoryReset
SpecImport == Init /\ [][ImportSpecNext]_vars

\* backup and restore: export, import and factory reset between changes of
\* the tab and of the runs
BackupSpecNext ==
    \/ TabNext({"record", "settings"})
    \/ RecordNext({InfinityWord}, FALSE)
    \/ RunListNext
    \/ BackupNext(ImportFiles)
    \/ RestoreNext
    \/ FactoryReset
SpecBackup == Init /\ [][BackupSpecNext]_vars

\* the settings tab: distances, defaults, import and factory reset
SettingsSpecNext ==
    \/ TabNext({"settings"})
    \/ SettingsNext(DistInputs \cup {ThirteenDistances}, {"Agility"})
    \/ BackupNext({JsonText(JsonObject(SkewedDoc)), StoreText(KennelStore)})
    \/ FactoryReset
SpecSettings == Init /\ [][SettingsSpecNext]_vars

\* the stopwatch and the record form, for a store that holds a dog
InitOneDog == InitFrom({StoreText(OneDogStore)})
StopwatchSpecNext ==
    \/ TabNext({"record", "dogs"})
    \/ StopwatchNext
    \/ RecordNext({Sec10, InfinityWord, <<"0">>}, FALSE)
SpecStopwatch == InitOneDog /\ [][StopwatchSpecNext]_vars

\* the page opened on a saved store with two dogs and a run of each
InitKennel == InitFrom({StoreText(KennelStore)})

\* the runs and the ranking: runs of two times over any distance are saved
\* and deleted, the clock standing still
InitRanking == InitFrom({StoreText(KennelStore), StoreText(ShuffledStore)})
RankingSpecNext ==
    \/ TabNext({"record", "leaderboard"})
    \/ RecordNext({Sec10, <<"0", "0", ":", "0", "5", ".", "0", "0">>}, TRUE)
    \/ RunListNext
SpecRanking == InitRanking /\ [][RankingSpecNext]_vars

\* the same handlers, from a store with a run dated after the present
InitAhead == InitFrom({StoreText(KennelStore), StoreText(AheadStore)})
SpecAhead == InitAhead /\ [][RankingSpecNext]_vars

\* what the forms refuse: blank names in the dog editor, lists without a
\* distance in the distances form, between inputs they accept
BlankNames == {<<>>, <<" ">>, <<" ", " ">>}
NoDistances == {<<>>, <<" ">>, <<"a", ",", "0", ",", "-", "5">>}
FormsSpecNext ==
    \/ TabNext({"dogs", "settings"})
    \/ DogsNoPhotoNext(BlankNames \cup {<<" ", "R", "e", "x", " ">>})
    \/ SettingsNext(NoDistances \cup {<<"2", "0", "0", ",", " ", "5", "0">>}, {"Agility"})
SpecForms == InitKennel /\ [][FormsSpecNext]_vars

\* the dogs tab without the handlers that add a dog or touch a photo
DogsEditNext(names) ==
    \/ ClearDogs
    \/ \E i \in DogIndex : DeleteDog(i)
    \/ \E i \in DogIndex, input \in names : EditDog(i, input, FALSE)

\* the distances form of the settings tab
DistancesNext(inputs) == \E input \in inputs : SetDistances(input)

\* a kennel with runs: its dogs are edited, its distances replaced, runs are
\* saved and removed
RunsSpecNext ==
    \/ TabNext({"dogs", "settings", "record"})
    \/ DogsEditNext({<<" ", "R", "e", "x", " ">>})
    \/ DistancesNext({<<"2", "0", "0", ",", " ", "5", "0">>})
    \/ RecordNext({Sec10}, FALSE)
    \/ RunListNext
SpecRuns == InitKennel /\ [][RunsSpecNext]_vars

\* the two asynchronous handlers, the dog editor reading a photo and the
\* import reading its file, between the other handlers of their tabs
AsyncSpecNext ==
    \/ TabNext({"dogs", "settings"})
    \/ DogsNext({<<" ", "R", "e", "x", " ">>})
    \/ BackupNext({InvalidText, StoreText(OneDogStore), Absent})
    \/ FactoryReset
SpecAsync == InitKennel /\ [][AsyncSpecNext]_vars

\* the manual form and the buttons of the stopwatch on the record tab, the
\* clock standing still
ManualSpecNext ==
    \/ TabNext({"record"})
    \/ ButtonsNext
    \/ RecordNext({Sec10, TenthMs} \cup RejectedTimes, FALSE)
SpecManual == InitOneDog /\ [][ManualSpecNext]_vars

\* Manual entries whose saved runs are then shown by formatTime (line 357)
CodecTimes ==
    {Sec10, TenthMs, <<"4", ".", "0", "3">>, <<"4", ".", "0", "3", "9">>, <<"0">>}
CodecSpecNext ==
    \/ TabNext({"record"})
    \/ ButtonsNext
    \/ RecordNext(CodecTimes, FALSE)
SpecCodec == InitOneDog /\ [][CodecSpecNext]_vars

----------------------------------------------------------------------------
(* Properties *)

\* the runs of s that belong to no dog of s
OrphanRuns(s) == {i \in 1..Len(s.runs) : s.runs[i].dogId \notin DogIds(s)}

\* C1: from the default store, after any sequence of add, edit, delete,
\* clear and select dog, save and delete run, clear runs and factory reset,
\* every run of store.runs has the dogId of a dog of store.dogs
C1_RunsBelongToDogs == OrphanRuns(store) = {}

\* a dog was deleted (its id is used up) and the dog that remains has a run
C1_RunAfterDelete ==
    /\ pending = <<>>
    /\ Len(store.dogs) = 1 /\ store.dogs[1].id = "d2"
    /\ Len(store.runs) = 1 /\ store.runs[1].dogId = "d2"

\* the step is deleteDog of the i-th dog
IsDeleteDog(i) == i \in DogIndex /\ DeleteDog(i)

\* C3: deleteDog removes exactly that dog and the runs with its dogId, keeps
\* every other dog and every other run as they were, in their order, and the
\* leaderboard computed afterwards has no row for the deleted dog
C3_DeleteDogCascades ==
    [][\A i \in 1..MaxDogs :
          IsDeleteDog(i) =>
              LET id == store.dogs[i].id
                  Other(d) == d.id # id
                  OfOther(r) == r.dogId # id
                  board == Leaderboard(store')
              IN /\ store'.dogs = SelectSeq(store.dogs, Other)
                 /\ store'.runs = SelectSeq(store.runs, OfOther)
                 /\ Len(store'.dogs) = Len(store.dogs) - 1
                 /\ \A k \in 1..Len(board) : board[k].dog.id # id]_vars

\* of the two dogs of the saved store, each with a run, the first was deleted
C3_FirstDogDeleted ==
    /\ store.dogs = <<KennelStore.dogs[2]>>
    /\ store.runs = <<KennelStore.runs[2]>>
    /\ Len(Leaderboard(store)) = 1

C2_OrphanRunsDropped == boot = "ok" => OrphanRuns(store) = {}

\* the text cannot be parsed, or what it parses to has no version
LacksVersion(text) ==
    \/ text.syntax = "invalid"
    \/ text.value.type # "object"
    \/ "version" \notin DOMAIN text.value.doc

\* the step is the second half of the import of the k-th suspended handler
IsResumeImport(k) ==
    k \in 1..Len(pending) /\ pending[k].kind = "import" /\ ResumeImport(k)

\* C5: the import of a file that cannot be parsed or has no version leaves
\* store and the persisted snapshot as they were, when the form is submitted
\* and when the file has been read, and toasts "Invalid backup file"
C5_InvalidImportRejected ==
    [][/\ \A file \in ImportFiles :
             Import(file) => store' = store /\ persisted' = persisted
       /\ \A k \in 1..MaxPending :
             IsResumeImport(k) /\ LacksVersion(pending[k].text) =>
                 /\ store' = store
                 /\ persisted' = persisted
                 /\ toasted' = "Invalid backup file"]_vars

\* an import was rejected and the two dogs and two runs are still there
C5_RejectedAndKept ==
    /\ toasted = "Invalid backup file"
    /\ store = [KennelStore EXCEPT !.activeTab = "settings"]
    /\ persisted = SaveStore(store)

\* C6 as stated: the import of the export of the store is accepted and gives
\* the store again, whatever store the page has reached
C6_ExportImportRoundTrip ==
    boot = "ok" =>
        /\ ImportAccepts(ExportData(store))
        /\ ImportData(ExportData(store)) = store

\* the persisted value has a version
HasMarker(raw) ==
    /\ raw # Absent
    /\ raw.syntax = "json"
    /\ raw.value.type = "object"
    /\ "version" \in DOMAIN raw.value.doc

\* C7 as stated: the script gets a store from loadStore whatever
\* localStorage holds, the parsed one when it has a version and a default
\* store when it is absent, unparsable or without a version
C7_LoadNeverFails ==
    /\ boot = "ok"
    /\ \A raw \in PersistedValues :
          ~LoadStore(raw).threw =>
              LoadStore(raw).store =
                  IF HasMarker(raw) THEN AsStore(raw.value.doc) ELSE DefaultStore

\* the step is the submit of #distForm with a list that holds a distance
IsSetDistances(input) == Len(ReadDistances(input)) > 0 /\ SetDistances(input)

TypedDistances == DistInputs \cup {ThirteenDistances}

\* C8 as stated: when the new list does not hold the default distance the
\* default becomes the smallest distance of the new list; when it does, the
\* default is unchanged
C8_DefaultFallsToSmallest ==
    [][\A input \in TypedDistances :
          IsSetDistances(input) =>
              store'.settings.defaultDistanceM =
                  IF store.settings.defaultDistanceM \in SeqRange(store'.distances)
                  THEN store.settings.defaultDistanceM
                  ELSE Smallest(store'.distances)]_vars

\* C8: when the new list does not hold the default distance the default
\* becomes the first distance of the new list, in the order typed; when it
\* does, the default is unchanged
C8_DefaultFallsToFirst ==
    [][\A input \in TypedDistances :
          IsSetDistances(input) =>
              store'.settings.defaultDistanceM =
                  IF store.settings.defaultDistanceM \in SeqRange(store'.distances)
                  THEN store.settings.defaultDistanceM
                  ELSE store'.distances[1]]_vars

\* "200, 50" was typed while the default was neither: the default is 200
C8_FirstNotSmallest ==
    /\ store.distances = <<200, 50>>
    /\ store.settings.defaultDistanceM = 200

\* C9 as stated: store.distances is not empty, has no duplicate, at most 12
\* entries, all positive integers, and holds settings.defaultDistanceM
C9_DistancesWellFormed ==
    boot = "ok" =>
        LET ds == store.distances
        IN /\ Len(ds) \in 1..12
           /\ \A i, j \in 1..Len(ds) : ds[i] = ds[j] => i = j
           /\ \A i \in 1..Len(ds) : IsFinite(ds[i]) /\ ds[i] > 0
           /\ store.settings.defaultDistanceM \in SeqRange(ds)

\* C10: #startStopBtn leaves timer.elapsed as it is, whether it starts or
\* stops the timer, and every tick of a running timer that was started at
\* elapsed e shows e plus the time that has passed since that start
C10_ResumeContinues ==
    [][/\ StartStop => timer'.elapsed = timer.elapsed
       /\ Tick /\ timer.running =>
             timer'.elapsed = Plus(lastStart.from, now - lastStart.at)]_vars

\* stopped at 5 s and started again at once: 0.4 ms later the tick shows
\* 5.0004 s
C10_ResumedFromFiveSeconds ==
    /\ timer.running
    /\ lastStart = [at |-> Durations[2], from |-> Durations[2]]
    /\ timer.elapsed = Durations[2] + Durations[1]

\* C11 as stated: #startStopBtn on a running timer leaves timer.elapsed at
\* performance.now() minus timer.start, whatever ticks there were since the
\* start
C11_StopTakesTheClock ==
    [][StartStop /\ timer.running =>
          timer'.elapsed = Minus(now, timer.start)]_vars

\* the timer is running on the record form, no tick is scheduled any more
\* and the clock is ahead of what the last tick showed
C11_TicksCeased ==
    /\ RecordForm
    /\ timer.running /\ ~raf
    /\ timer.elapsed > 0
    /\ Minus(now, timer.start) > timer.elapsed

\* the step is a submit of #manualForm, a click on #saveRunBtn
IsManualEntry == \E input \in ManualInputs : ManualEntry(input)
IsSaveRun == \E d \in SeqRange(store.distances) : SaveRun(d)

\* C12: while the timer is not running timer.elapsed changes only by
\* #startStopBtn, #resetBtn, a submit of #manualForm or #saveRunBtn; the
\* clock and the ticks leave it as it is
C12_StoppedIsFrozen ==
    [][~timer.running /\ timer'.elapsed # timer.elapsed =>
          StartStop \/ Reset \/ IsManualEntry \/ IsSaveRun]_vars

\* stopped at 5 s, and the clock has gone on since
C12_StoppedAndLater ==
    /\ ~timer.running
    /\ timer.start = 0
    /\ timer.elapsed = Durations[2]
    /\ now = Durations[2] + Durations[1]

\* C13: #resetBtn leaves the timer not running with timer.elapsed 0 and no
\* tick scheduled, whatever the timer was doing, and a tick that comes while
\* the timer is not running leaves timer.elapsed as it is
C13_ResetYieldsZero ==
    [][/\ Reset => ~timer'.running /\ timer'.elapsed = 0 /\ ~raf'
       /\ Tick /\ ~timer.running => timer'.elapsed = timer.elapsed]_vars

\* the timer was started 5 s after the page opened and reset before any run
\* was saved
C13_ResetAfterStart ==
    /\ ~timer.running /\ timer.elapsed = 0 /\ ~raf
    /\ timer.start = Durations[2]
    /\ store.runs = <<>>

\* C14 as stated: a submit of #manualForm while the timer is running changes
\* nothing of the timer: it stays running, timer.elapsed and timer.start are
\* what they were and the tick stays scheduled
C14_ManualRefusedWhileRunning ==
    [][\A input \in ManualInputs :
          ManualEntry(input) /\ timer.running => timer' = timer /\ raf' = raf]_vars

\* C15: a submit of #manualForm with no time, with a text that is no time or
\* with a time that is zero or negative toasts "Enter a valid time" and
\* leaves timer.elapsed, timer.running and the scheduled tick as they were
C15_BadTimeRejected ==
    [][\A input \in RejectedTimes :
          RecordForm /\ ManualEntry(input) =>
              /\ timer' = timer
              /\ raf' = raf
              /\ toasted' = "Enter a valid time"]_vars

\* a bad time was submitted while the timer was running from 10 s: it still
\* runs
C15_RejectedWhileRunning ==
    /\ toasted = "Enter a valid time"
    /\ timer.running /\ raf
    /\ lastStart.from = 100000

\* the positions in s.runs of the runs of a dog
RunsOf(s, dogId) == {i \in 1..Len(s.runs) : s.runs[i].dogId = dogId}

\* run i was created before run j: its createdAt is earlier or, with the
\* same createdAt, it was pushed to s.runs first
CreatedFirst(s, i, j) ==
    \/ s.runs[i].createdAt < s.runs[j].createdAt
    \/ s.runs[i].createdAt = s.runs[j].createdAt /\ i <= j

\* bestRunForDog gives null without a run and else a run of the dog that
\* none of its runs is faster than, the one created first among the runs as
\* fast
BestIsFastestEarliest(s, dogId) ==
    LET own == RunsOf(s, dogId)
        best == BestRunForDog(s, dogId)
    IN IF own = {} THEN best = NoRun
       ELSE \E i \in own :
               /\ best = s.runs[i]
               /\ \A j \in own :
                     /\ ~SpeedGreater(s.runs[j].speedKmh, best.speedKmh)
                     /\ s.runs[j].speedKmh = best.speedKmh => CreatedFirst(s, i, j)

\* C16: bestRunForDog returns null for a dog without a run, else the run of
\* the dog with the greatest stored speedKmh, the earliest created when
\* several runs have that speed
C16_BestRunIsFastestEarliest ==
    \A dogId \in DogIds(store) \cup {"nobody"} :
        BestIsFastestEarliest(store, dogId)

\* two runs of one dog over different distances with the same speed, saved
\* on the record form: the first is the best run
C16_TieGoesToFirst ==
    /\ Len(store.runs) = 2
    /\ store.runs[1].dogId = store.runs[2].dogId
    /\ store.runs[1].speedKmh = store.runs[2].speedKmh
    /\ store.runs[1].distanceM # store.runs[2].distanceM
    /\ store.runs[1].createdAt = store.runs[2].createdAt
    /\ BestRunForDog(store, store.runs[1].dogId) = store.runs[1]

\* C17: leaderboard() has one row for every dog with a run and none for a
\* dog without, every row holds the dog and its best run, and no row has a
\* greater pb.speedKmh than the row before it; this holds in every state,
\* whatever runs were saved, deleted or cleared before
C17_LeaderboardRanksDogs ==
    LET board == Leaderboard(store)
    IN /\ \A k \in 1..Len(board) :
             /\ board[k].dog \in SeqRange(store.dogs)
             /\ board[k].pb = BestRunForDog(store, board[k].dog.id)
             /\ board[k].pb \in SeqRange(store.runs)
       /\ \A d \in DogIds(store) :
             Cardinality({k \in 1..Len(board) : board[k].dog.id = d}) =
                 IF RunsOf(store, d) = {} THEN 0 ELSE 1
       /\ \A k \in 1..(Len(board) - 1) :
             ~SpeedGreater(board[k + 1].pb.speedKmh, board[k].pb.speedKmh)

\* the first dog's saved run was deleted and a faster run saved for it: it
\* leads the leaderboard before the second dog
C17_NewRunLeads ==
    LET board == Leaderboard(store)
    IN /\ Len(board) = 2
       /\ board[1].dog.id = "k1" /\ board[1].pb.id = "r1"
       /\ board[2].dog.id = "k2" /\ board[2].pb.id = "q2"
       /\ SpeedGreater(board[1].pb.speedKmh, board[2].pb.speedKmh)

\* C18 as stated: every run has a timeMs greater than 0, whatever elapsed
\* time the timer held when the run was saved
C18_SavedTimeIsPositive ==
    \A i \in 1..Len(store.runs) : store.runs[i].timeMs > 0

\* a run was saved from a timer that held less than half a millisecond
C18_SubMillisecondRun ==
    \E i \in 1..Len(store.runs) :
        /\ store.runs[i].id \in SeqRange(RunIdPool)
        /\ store.runs[i].timeMs = 0
        /\ SpeedGreater(store.runs[i].speedKmh, <<0, 0>>)

\* C19: a submit of the dog editor, adding or editing, with an empty or
\* blank name, and a submit of the distances form with a list that holds no
\* positive number, leave store and the persisted snapshot as they were
C19_BlankInputRejected ==
    [][/\ \A input \in BlankNames, withFile \in BOOLEAN :
             AddDog(input, withFile) => store' = store /\ persisted' = persisted
       /\ \A i \in 1..MaxDogs, input \in BlankNames, withFile \in BOOLEAN :
             i \in DogIndex /\ EditDog(i, input, withFile) =>
                 store' = store /\ persisted' = persisted
       /\ \A input \in NoDistances :
             SetDistances(input) => store' = store /\ persisted' = persisted]_vars

\* a list without a distance was refused and the saved store is as it was
C19_NoDistanceRefused ==
    /\ toasted = "Enter at least one distance"
    /\ store = [KennelStore EXCEPT !.activeTab = "settings"]
    /\ persisted = SaveStore(store)

\* a whole number of milliseconds, as a magnitude
WholeMs(ms) == NatLimbs(ms) \o Zeros(FractionLimbs)

\* parseTimeString(formatTime(ms)) for a whole number of milliseconds
RoundTrip(ms) == ParseTimeString64(FormatTime(ms * 10))

\* C20 as stated: for the time x of every stored run (a non-negative number
\* of milliseconds, shown by formatTime), parseTimeString(formatTime(x)) is
\* a number, is at most x and is less than 10 ms below x; formatTime writes
\* the centiseconds of x truncated, and "00:00.00" for 0
C20_RoundTripWithinCentisecond ==
    \A i \in 1..Len(store.runs) :
        LET x == store.runs[i].timeMs
            p == RoundTrip(x)
        IN IsFinite(x) /\ x >= 0 =>
               /\ p.kind = "num" /\ (~p.neg \/ p.limbs = <<>>)
               /\ ~LessLimbs(WholeMs(x), p.limbs)
               /\ LessLimbs(WholeMs(x), AddLimbs(p.limbs, WholeMs(10), 0))
               /\ FormatTime(x * 10) = FormatTime((x - (x % 10)) * 10)
               /\ (x = 0 => FormatTime(0) = <<"0", "0", ":", "0", "0", ".", "0", "0">>)

\* a run of 4030 ms is stored, it is shown as 00:04.03, and that text is
\* parsed to more than 4030 ms
C20_ParsedAboveFormatted ==
    \E i \in 1..Len(store.runs) :
        /\ store.runs[i].timeMs = 4030
        /\ FormatTime(40300) = <<"0", "0", ":", "0", "4", ".", "0", "3">>
        /\ RoundTrip(4030).kind = "num"
        /\ LessLimbs(WholeMs(4030), RoundTrip(4030).limbs)

\* v, km/h as <<whole, ten-thousandths>>, is distanceM * 3.6 / (t / 1000)
\* to the nearest ten-thousandth, for t > 0 in units of 1/10 ms
IsSpeedOf(v, distanceM, t) ==
    LET rem == distanceM * 36000 - v[1] * t
    IN /\ v[1] >= 0 /\ v[2] \in 0..9999
       /\ v[2] * t - rem * 10000 <= t \div 2
       /\ rem * 10000 - v[2] * t <= t \div 2

\* the durations speedKmh is tried on in a state: the elapsed time the
\* timer holds, and its negative
TriedDurations == {timer.elapsed, Minus(0, timer.elapsed)}

\* C21: for every distance of the store and every duration tried, speedKmh
\* is 0 when the duration is zero or negative, and distance * 3.6 /
\* (duration / 1000) when it is positive; speedKmh(100, 10000) is 36
C21_SpeedIsDistanceOverTime ==
    /\ \A d \in SeqRange(store.distances) : \A t \in TriedDurations :
           IsFinite(t) =>
               IF t <= 0 THEN SpeedKmh4(d, t) = <<0, 0>>
               ELSE IsSpeedOf(SpeedKmh4(d, t), d, t)
    /\ SpeedKmh4(100, 100000) = <<36, 0>>

\* the timer holds 10 s, 100 m is a distance of the store, and the speed
\* shown for it is 36 km/h, that for minus 10 s is 0
C21_HundredMetresInTenSeconds ==
    /\ timer.elapsed = 100000 /\ ~timer.running
    /\ Includes(store.distances, 100)
    /\ SpeedKmh4(100, timer.elapsed) = <<36, 0>>
    /\ SpeedKmh4(100, Minus(0, timer.elapsed)) = <<0, 0>>

IsEditDog == \E i \in DogIndex : EditDog(i, <<" ", "R", "e", "x", " ">>, FALSE)

\* C22: a run that is in store.runs before and after a step has the same
\* distance, duration, stored speed, dog id and creation time after it (no
\* import is made); the submit of the distances form and the edit of a dog
\* leave store.runs as it was
C22_StoredRunImmutable ==
    [][/\ \A i \in 1..Len(store.runs) : \A j \in 1..Len(store'.runs) :
              store'.runs[j].id = store.runs[i].id => store'.runs[j] = store.runs[i]
       /\ (\E input \in TypedDistances : SetDistances(input)) \/ IsEditDog
              => store'.runs = store.runs]_vars

\* the first run of the kennel is still stored as it was, over 100 m, after
\* the distances were set to 200 and 50
C22_RunOverRemovedDistance ==
    /\ store.distances = <<200, 50>>
    /\ store.settings.defaultDistanceM = 200
    /\ \E i \in 1..Len(store.runs) : store.runs[i] = KennelStore.runs[1]
    /\ persisted = SaveStore(store)

\* C23: #saveRunBtn pressed while the timer is running or while elapsed is
\* zero or negative leaves store, the persisted snapshot and the timer as
\* they were; pressed otherwise it appends one run; and no step appends a
\* run unless the timer is stopped with elapsed > 0
C23_SaveRefusedWithoutTime ==
    [][/\ \A d \in SeqRange(store.distances) : SaveRun(d) =>
              IF timer.running \/ timer.elapsed <= 0
              THEN /\ store' = store /\ persisted' = persisted
                   /\ timer' = timer /\ raf' = raf
              ELSE /\ Len(store'.runs) = Len(store.runs) + 1
                   /\ SubSeq(store'.runs, 1, Len(store.runs)) = store.runs
       /\ Len(store'.runs) > Len(store.runs) => ~timer.running /\ timer.elapsed > 0]_vars

\* the save was refused while the timer was running from a typed time of
\* 10 s, and nothing is stored
C23_RefusedWhileRunning ==
    /\ toasted = "Stop the timer first"
    /\ timer.running /\ timer.elapsed = 100000
    /\ store.runs = <<>> /\ persisted = SaveStore(store)

Saved == {"Saved run", "Saved! New PB"}

\* C24: a save that appends a run leaves the timer not running, with
\* elapsed 0 and no frame requested; and #saveRunBtn pressed again right
\* after a successful save stores nothing
C24_SaveResetsTimer ==
    [][/\ IsSaveRun /\ Len(store'.runs) > Len(store.runs) =>
              ~timer'.running /\ timer'.elapsed = 0 /\ ~raf'
       /\ IsSaveRun /\ toasted \in Saved =>
              store' = store /\ persisted' = persisted
                  /\ toasted' = "Record a time first"]_vars

\* a run of 10 s was saved, the save was tried again and refused
C24_SecondSaveRefused ==
    /\ toasted = "Record a time first"
    /\ Len(store.runs) = 1 /\ store.runs[1].timeMs = 10000
    /\ ~timer.running /\ timer.elapsed = 0

\* C25 as stated: whenever no handler is suspended, settings.activeDogId is
\* unset or the id of a dog of store.dogs
C25_ActiveDogIsValid ==
    boot = "ok" /\ pending = <<>> =>
        \/ store.settings.activeDogId = Undefined
        \/ store.settings.activeDogId \in DogIds(store)

\* no handler is suspended, and the active dog is a dog that was deleted
\* while its editor was reading a photo
C25_ActiveDogDeleted ==
    /\ boot = "ok" /\ pending = <<>>
    /\ store.settings.activeDogId \in SeqRange(DogIdPool)
    /\ store.settings.activeDogId \notin DogIds(store)
    /\ persisted = SaveStore(store)

\* C26: whenever no handler is suspended, the persisted snapshot is the
\* serialization of the store in memory, whatever was done while the dog
\* editor was reading a photo or the import its file
C26_PersistedInStep ==
    boot = "ok" /\ pending = <<>> => persisted = StoreText(store)

\* the first dog of the kennel was deleted while its editor was reading a
\* photo that could not be read; the editor has ended and the snapshot is
\* the store
C26_SavedAfterInterleaving ==
    /\ toasted = "Could not read photo"
    /\ pending = <<>>
    /\ "k1" \notin DogIds(store)
    /\ store.settings.activeDogId = "k1"
    /\ persisted = StoreText(store)

\* C27 as stated: a save that appends a run toasts the new personal best
\* exactly when the stored speed of the new run is greater than the stored
\* speed of every run the dog had before
C27_PbReportedIffFaster ==
    [][\A d \in SeqRange(store.distances) :
           SaveRun(d) /\ Len(store'.runs) > Len(store.runs) =>
               LET run == store'.runs[Len(store'.runs)]
               IN toasted' = "Saved! New PB" <=>
                      \A i \in RunsOf(store, run.dogId) :
                          SpeedGreater(run.speedKmh, store.runs[i].speedKmh)]_vars

\* a run that only ties the dog's earlier run, which is dated after it, was
\* saved and reported as a new personal best
C27_TieReportedAsPb ==
    /\ toasted = "Saved! New PB"
    /\ Len(store.runs) = 2
    /\ store.runs[1].dogId = store.runs[2].dogId
    /\ store.runs[1].speedKmh = store.runs[2].speedKmh
    /\ store.runs[2].id \in SeqRange(RunIdPool)
    /\ store.runs[1].createdAt > store.runs[2].createdAt

====
